---------------------------- MODULE Spec2Model ----------------------------
(***************************************************************************)
(* A model of google.adk.runners.Runner: turn resolution                   *)
(* (_find_agent_to_run), the plugin-wrapped execution pipeline             *)
(* (_exec_with_plugin) and toolset cleanup (close).                        *)
(***************************************************************************)
EXTENDS Naturals, Sequences, FiniteSets

VARIABLES
  isLlm,          \* agent name -> isinstance(agent, LlmAgent)
  disallow,       \* agent name -> agent.disallow_transfer_to_parent
  deepLookup,     \* whether find_sub_agent searches below the direct children
  events,         \* session.events
  found,          \* the agent the last turn resolution returned
  mode,           \* which part of the runner this behaviour exercises
  pc,             \* _exec_with_plugin: the statement it is suspended at
  cur,            \* _exec_with_plugin: event, the loop variable
  out,            \* _exec_with_plugin: the event about to be yielded
  log,            \* the calls made and events yielded so far, in order
  base,           \* Len(session.events) when _exec_with_plugin was entered
  raisedBy,       \* the call whose exception left _exec_with_plugin
  tools,          \* agent name -> the members of agent.tools
  cpc,            \* close(): the statement it is suspended at
  toClose,        \* _cleanup_toolsets: the toolsets the loop has yet to visit
  closeLog,       \* the toolset.close() calls made so far, with their outcome
  queue,          \* run(): event_queue
  wpc,            \* run(): where the worker thread is
  bpc,            \* run(): where the calling thread is
  asyncOut,       \* run(): the events run_async has yielded in the worker
  got,            \* run(): the events the blocking iterator has yielded
  failed,         \* run(): what raised in the worker, None when nothing did
  entry,          \* the entry point called: run_async, run_live, or
                  \* _exec_with_plugin alone
  fpc,            \* where run_async / run_live is before _exec_with_plugin
  given,          \* run_live: which of session and (user_id, session_id)
                  \* the caller passed
  stored,         \* whether session_service.get_session finds the session
  msg,            \* run_async: new_message
  artifactsOn,    \* self.artifact_service and save_input_blobs_as_artifacts
  artifacts,      \* the parts passed to artifact_service.save_artifact
  fcalls,         \* the collaborator calls made before _exec_with_plugin
  ferr,           \* the error run_async / run_live raised before
                  \* _exec_with_plugin, None when none
  code_executor,  \* self.agent.code_executor
  model,          \* self.agent.canonical_model.model
  rootHasSubs,    \* whether self.agent.sub_agents is non-empty
  defaultCfg,     \* the RunConfig() object that is run_live's default argument
  ownCfg,         \* the RunConfig objects the callers pass, by invocation
  ipc,            \* where each invocation is
  inv,            \* what each invocation was called with and was handed
  liveTools,      \* run_live: invocation_context.agent.tools
  active_streaming_tools,
                  \* run_live: invocation_context.active_streaming_tools
  chans           \* run_live: how many LiveRequestQueue() were constructed

treeVars == <<isLlm, disallow, deepLookup>>

pipeVars == <<pc, cur, out, log, base, raisedBy>>

reaperVars == <<tools, cpc, toClose, closeLog>>

bridgeVars == <<queue, wpc, bpc, asyncOut, got, failed>>

frontVars ==
  <<entry, fpc, given, stored, msg, artifactsOn, artifacts, fcalls, ferr>>

ctxVars ==
  <<code_executor, model, rootHasSubs, defaultCfg, ownCfg, ipc, inv>>

liveVars == <<liveTools, active_streaming_tools, chans>>

vars == <<isLlm, disallow, deepLookup, events, found, mode,
          pc, cur, out, log, base, raisedBy, tools, cpc, toClose, closeLog,
          queue, wpc, bpc, asyncOut, got, failed,
          entry, fpc, given, stored, msg, artifactsOn, artifacts, fcalls, ferr,
          code_executor, model, rootHasSubs, defaultCfg, ownCfg, ipc, inv,
          liveTools, active_streaming_tools, chans>>

(***************************************************************************)
(* Bounds of the model.                                                    *)
(***************************************************************************)
MaxHist == 3

MaxEvents == 3

MaxBridge == 3

MaxRunEvents == 2

MaxTools == 2

(***************************************************************************)
(* The agent tree: root -> A -> B.  Names are unique; the root has no      *)
(* parent.                                                                 *)
(***************************************************************************)
RootName == "root"

Agents == {"root", "A", "B"}

None == "<none>"

Unset == "<unset>"

ParentOf == [a \in Agents |-> CASE a = "root" -> None
                                [] a = "A" -> "root"
                                [] a = "B" -> "A"]

SubAgents(a) == {s \in Agents : ParentOf[s] = a}

RECURSIVE Descendants(_)
Descendants(a) ==
  SubAgents(a) \cup UNION {Descendants(s) : s \in SubAgents(a)}

\* BaseAgent.find_agent: the node of this name anywhere in the tree, or None.
find_agent(root, name) ==
  IF name \in ({root} \cup Descendants(root)) THEN name ELSE None

\* BaseAgent.find_sub_agent: the node of this name below root, or None.  The
\* lookup depth is not fixed by runners.py; both readings are modelled.
find_sub_agent(root, name) ==
  IF deepLookup
  THEN IF name \in Descendants(root) THEN name ELSE None
  ELSE IF name \in SubAgents(root) THEN name ELSE None

(***************************************************************************)
(* Events.  kind/fid stand for the content: plain text, a function call    *)
(* with id fid, or a function response to the call with id fid.            *)
(***************************************************************************)
Ev(author, partial, kind, fid) ==
  [author |-> author, partial |-> partial, kind |-> kind, fid |-> fid]

NoEv == Ev(None, "None", "none", 0)

HistEvents ==
  {Ev("user", "None", "text", 0)}
  \cup {Ev("user", "None", "resp", f) : f \in {1, 2}}
  \cup {Ev(a, "None", "text", 0) : a \in Agents \cup {"ghost"}}
  \cup {Ev(a, "None", "call", 1) : a \in {"A", "ghost"}}
  \cup {Ev(a, "None", "call", 2) : a \in {"root", "B"}}
  \cup {Ev("A", "None", "resp", 1)}

\* functions.find_matching_function_call, as its call site documents it: when
\* the last event is a function response, the event that returned the
\* corresponding function call (its index; 0 stands for None).
find_matching_function_call(evs) ==
  IF evs = <<>> \/ evs[Len(evs)].kind # "resp" THEN 0
  ELSE LET calls == {i \in 1..(Len(evs) - 1) :
                       evs[i].kind = "call" /\ evs[i].fid = evs[Len(evs)].fid}
       IN  IF calls = {} THEN 0
           ELSE CHOOSE i \in calls : \A j \in calls : j <= i

(***************************************************************************)
(* Runner._is_transferable_across_agent_tree                               *)
(***************************************************************************)
\* mutant: only the agent itself is checked, not its ancestors
Mut_transferable_self_only(agent) ==
  IF agent = None THEN TRUE ELSE isLlm[agent] /\ ~disallow[agent]

RECURSIVE is_transferable_across_agent_tree(_)
is_transferable_across_agent_tree(agent) ==
  IF agent = None THEN TRUE
  ELSE IF ~isLlm[agent] THEN FALSE
  ELSE IF disallow[agent] THEN FALSE
  ELSE is_transferable_across_agent_tree(ParentOf[agent])

(***************************************************************************)
(* Runner._find_agent_to_run                                               *)
(***************************************************************************)
\* mutant: the scan does not stop at an event authored by the root
RECURSIVE Mut_ScanBack_skips_root(_, _, _)
Mut_ScanBack_skips_root(evs, root, k) ==
  IF k = 0 THEN root
  ELSE LET agent == find_sub_agent(root, evs[k].author) IN
    IF evs[k].author = "user" \/ agent = None
    THEN Mut_ScanBack_skips_root(evs, root, k - 1)
    ELSE IF is_transferable_across_agent_tree(agent) THEN agent
    ELSE Mut_ScanBack_skips_root(evs, root, k - 1)

\* mutant: no fallback to the root when the scan runs out of events
RECURSIVE Mut_ScanBack_no_fallback(_, _, _)
Mut_ScanBack_no_fallback(evs, root, k) ==
  IF k = 0 THEN None
  ELSE LET agent == find_sub_agent(root, evs[k].author) IN
    IF evs[k].author = "user" THEN Mut_ScanBack_no_fallback(evs, root, k - 1)
    ELSE IF evs[k].author = root THEN root
    ELSE IF agent = None THEN Mut_ScanBack_no_fallback(evs, root, k - 1)
    ELSE IF is_transferable_across_agent_tree(agent) THEN agent
    ELSE Mut_ScanBack_no_fallback(evs, root, k - 1)

\* the loop over filter(author != 'user', reversed(session.events)), from
\* index k down to 1
RECURSIVE ScanBack(_, _, _)
ScanBack(evs, root, k) ==
  IF k = 0 THEN root
  ELSE LET event == evs[k] IN
    IF event.author = "user" THEN ScanBack(evs, root, k - 1)
    ELSE IF event.author = root THEN root
    ELSE LET agent == find_sub_agent(root, event.author) IN
      IF agent = None THEN ScanBack(evs, root, k - 1)
      ELSE IF is_transferable_across_agent_tree(agent) THEN agent
      ELSE ScanBack(evs, root, k - 1)

\* mutant: the author of the matching function call goes through the same
\* sub-agent lookup and transfer check as any other author
Mut_find_agent_no_step_one(evs, root) == ScanBack(evs, root, Len(evs))

find_agent_to_run(evs, root) ==
  LET i == find_matching_function_call(evs) IN
  IF i # 0 /\ evs[i].author # ""
  THEN find_agent(root, evs[i].author)
  ELSE ScanBack(evs, root, Len(evs))

(***************************************************************************)
(* Turn resolution over a growing session.                                 *)
(***************************************************************************)
TreeInit ==
  /\ isLlm \in [Agents -> BOOLEAN]
  /\ disallow \in [Agents -> BOOLEAN]
  /\ \A a \in Agents : disallow[a] => isLlm[a]   \* the flag is LlmAgent's
  /\ deepLookup \in BOOLEAN

PipeIdle ==
  /\ pc = "idle"
  /\ cur = NoEv
  /\ out = NoEv
  /\ log = <<>>
  /\ base = 0
  /\ raisedBy = None

ReaperIdle ==
  /\ tools = [a \in Agents |-> {}]
  /\ cpc = "idle"
  /\ toClose = {}
  /\ closeLog = <<>>

BridgeIdle ==
  /\ queue = <<>>
  /\ wpc = "idle"
  /\ bpc = "idle"
  /\ asyncOut = <<>>
  /\ got = <<>>
  /\ failed = None

\* new_message is None
NoMsg == [isNone |-> TRUE, parts |-> <<>>]

FrontIdle ==
  /\ fpc = "idle"
  /\ given = None
  /\ stored = FALSE
  /\ msg = NoMsg
  /\ artifactsOn = FALSE
  /\ artifacts = <<>>
  /\ fcalls = <<>>
  /\ ferr = None

\* the invocations on one runner that are followed
Invocations == {1, 2}

\* response_modalities is None
NoList == <<None>>

RunConfig(m, o, i, c) ==
  [response_modalities |-> m,
   output_audio_transcription |-> o,
   input_audio_transcription |-> i,
   support_cfc |-> c]

\* RunConfig()
DefaultRunConfig == RunConfig(NoList, None, None, FALSE)

NoInv ==
  [entry |-> None, usesDefault |-> FALSE, queue |-> FALSE,
   start |-> DefaultRunConfig, built |-> DefaultRunConfig,
   executor |-> None]

LiveIdle ==
  /\ liveTools = <<>>
  /\ active_streaming_tools = {}
  /\ chans = 0

CtxIdle ==
  /\ code_executor = None
  /\ model = None
  /\ rootHasSubs = TRUE
  /\ defaultCfg = DefaultRunConfig
  /\ ownCfg = [i \in Invocations |-> DefaultRunConfig]
  /\ ipc = [i \in Invocations |-> "idle"]
  /\ inv = [i \in Invocations |-> NoInv]

ResolverInit ==
  /\ TreeInit
  /\ events = <<>>
  /\ found = Unset
  /\ mode = "resolve"
  /\ PipeIdle
  /\ ReaperIdle
  /\ BridgeIdle
  /\ entry = None
  /\ FrontIdle
  /\ LiveIdle
  /\ CtxIdle

\* session_service.append_event between two resolutions: the session grows
\* and the next invocation resolves again
SessionGrows ==
  /\ mode = "resolve"
  /\ Len(events) < MaxHist
  /\ \E e \in HistEvents : events' = Append(events, e)
  /\ found' = Unset
  /\ UNCHANGED <<treeVars, mode, pipeVars, reaperVars, bridgeVars, frontVars, ctxVars, liveVars>>

\* mutant: the resolution consumes the newest event of the session
Mut_FindAgentToRun_consumes ==
  /\ mode = "resolve"
  /\ found' = find_agent_to_run(events, RootName)
  /\ events' = IF events = <<>> THEN events
               ELSE SubSeq(events, 1, Len(events) - 1)
  /\ UNCHANGED <<treeVars, mode, pipeVars, reaperVars, bridgeVars, frontVars, ctxVars, liveVars>>

\* invocation_context.agent = self._find_agent_to_run(session, root_agent)
FindAgentToRun ==
  /\ mode = "resolve"
  /\ found' = find_agent_to_run(events, RootName)
  /\ UNCHANGED <<treeVars, events, mode, pipeVars, reaperVars, bridgeVars, frontVars, ctxVars, liveVars>>

(***************************************************************************)
(* Turn resolution: properties.                                            *)
(***************************************************************************)
Last(evs) == evs[Len(evs)]

\* the nodes from agent a up to and including the root
RECURSIVE PathToRoot(_)
PathToRoot(a) == IF a = None THEN {} ELSE {a} \cup PathToRoot(ParentOf[a])

PathQualifies(a) == \A n \in PathToRoot(a) : isLlm[n] /\ ~disallow[n]

\* the sub-agents a lookup by name can find
KnownSubAgents ==
  IF deepLookup THEN Descendants(RootName) ELSE SubAgents(RootName)

\* the function-call events the newest event, a function response, answers
MatchingCalls ==
  IF events = <<>> \/ Last(events).kind # "resp" THEN {}
  ELSE {i \in 1..(Len(events) - 1) :
          events[i].kind = "call" /\ events[i].fid = Last(events).fid}

HasPendingCall == MatchingCalls # {}

NewestOf(S) == CHOOSE i \in S : \A j \in S : j <= i

\* the events that decide the newest-to-oldest scan
Deciding ==
  {i \in 1..Len(events) :
     \/ events[i].author = RootName
     \/ events[i].author \in KnownSubAgents /\ PathQualifies(events[i].author)}

NewestNonUser ==
  LET nu == {i \in 1..Len(events) : events[i].author # "user"}
  IN  IF nu = {} THEN 0 ELSE CHOOSE i \in nu : \A j \in nu : j <= i

\* C4 as stated: when the newest event is an unanswered function call
\* authored by a node X of the tree, resolution returns X, whatever X's or
\* its ancestors' LLM capability and transfer-disallow flags.
Cex_C4_NewestCallAuthorReturned ==
  (found # Unset /\ events # <<>> /\ Last(events).kind = "call"
     /\ Last(events).author \in Agents)
  => found = Last(events).author

\* C4 as amended: when the newest event is a function response and the
\* newest earlier event with the corresponding function call is authored by
\* a node X of the tree, resolution returns X, whatever X's or its
\* ancestors' LLM capability and transfer-disallow flags and whoever
\* authored the other events.
Thm_C4_AnsweredCallAuthorReturned ==
  (found # Unset /\ MatchingCalls # {}
     /\ events[NewestOf(MatchingCalls)].author \in Agents)
  => found = events[NewestOf(MatchingCalls)].author

Wit_C4_AnsweredCallAuthorReturned ==
  /\ found = "B"
  /\ Len(events) = 3
  /\ events[1] = Ev("root", "None", "call", 2)
  /\ events[2] = Ev("B", "None", "call", 2)
  /\ events[3] = Ev("user", "None", "resp", 2)
  /\ ~isLlm["B"]
  /\ disallow["A"]

\* C5: when step 1 finds no function call, a non-root agent is returned only if
\* every node from it up to and including the root is LLM-capable and has no
\* transfer-disallow flag; an agent whose path does not qualify is passed
\* over and the result is the author of an older event or the root.
Thm_C5_OnlyTransferableReturned ==
  (found # Unset /\ ~HasPendingCall)
  => \/ found = RootName
     \/ /\ found \in Agents
        /\ PathQualifies(found)
        /\ \E i \in 1..Len(events) : events[i].author = found

Wit_C5_OnlyTransferableReturned ==
  /\ ~HasPendingCall
  /\ deepLookup
  /\ Len(events) = 3
  /\ events[1].author = "A"
  /\ events[2].author = "B"
  /\ events[3].author = "user"
  /\ disallow["B"]
  /\ PathQualifies("A")
  /\ found = "A"

\* C6: when step 1 finds no function call, the newest event that is authored by
\* the root's name or by a known transferable sub-agent decides the result;
\* in particular a newest non-user event authored by the root gives the root.
Thm_C6_NewestDecidingEventWins ==
  (found # Unset /\ ~HasPendingCall /\ Deciding # {})
  => /\ found = events[NewestOf(Deciding)].author
     /\ (events[NewestNonUser].author = RootName => found = RootName)

Wit_C6_NewestDecidingEventWins ==
  /\ ~HasPendingCall
  /\ Len(events) = 3
  /\ events[1].author = "A"
  /\ PathQualifies("A")
  /\ events[2].author = "root"
  /\ events[3].author = "user"
  /\ found = RootName

\* C7: resolution returns the root for an empty history, and whenever the
\* scan runs through the whole history without a deciding event.
Thm_C7_FallbackToRoot ==
  (found # Unset /\ ~HasPendingCall /\ Deciding = {}) => found = RootName

Wit_C7_FallbackToRoot ==
  /\ events = <<>>
  /\ found = RootName

\* C8: for every event history resolution returns a node of the agent tree,
\* also when the author of the function call found in step 1 names no node.
Cex_C8_AlwaysReturnsTreeNode ==
  found # Unset => found \in Agents

AgentEvents ==
  {Ev("A", p, "text", c) : p \in {"None", "False", "True"}, c \in {1, 2}}

\* what run_on_event_callback can return for an event: None, or another event
OnEventResults(e) ==
  {NoEv} \cup {Ev(e.author, p, "text", 3) : p \in {"False", "True"}}

\* what run_before_run_callback can return: None, or response content
BeforeRunResults == {NoEv, Ev("", "None", "text", 9)}

Rec(op, ev, ret) == [op |-> op, ev |-> ev, ret |-> ret]

\* session_service.append_event(session=session, event=event)
append_event(evs, e) == Append(evs, e)

\* mutant: every produced event is appended, partial or not
Mut_is_appended_always(event) == TRUE

\* if not event.partial
is_appended(event) == event.partial # "True"

\* an awaited collaborator raises and the exception leaves the generator
Raise(who) ==
  /\ pc' = "raised"
  /\ raisedBy' = who
  /\ UNCHANGED <<cur, out, log, events>>

PipeFrame == UNCHANGED <<treeVars, found, mode, base, reaperVars, bridgeVars, frontVars, ctxVars, liveVars>>

\* early_exit_result = await plugin_manager.run_before_run_callback(...)
RunBeforeRunCallback ==
  /\ mode = "pipeline" /\ pc = "before_run"
  /\ \/ \E r \in BeforeRunResults :
          /\ log' = Append(log, Rec("before_run", NoEv, r))
          /\ IF r # NoEv
             THEN /\ cur' = Ev("model", "None", r.kind, r.fid)
                  /\ pc' = "early_append"
             ELSE /\ cur' = cur
                  /\ pc' = "execute"
          /\ UNCHANGED <<out, events, raisedBy>>
     \/ Raise("before_run")
  /\ PipeFrame

\* await self.session_service.append_event(session, early_exit_event)
AppendEarlyExitEvent ==
  /\ mode = "pipeline" /\ pc = "early_append"
  /\ \/ /\ events' = append_event(events, cur)
        /\ log' = Append(log, Rec("append", cur, NoEv))
        /\ pc' = "early_yield"
        /\ UNCHANGED <<cur, out, raisedBy>>
     \/ Raise("append_event")
  /\ PipeFrame

\* mutant: the normal execution follows the early exit (no else branch)
Mut_YieldEarlyExitEvent_then_execute ==
  /\ mode = "pipeline" /\ pc = "early_yield"
  /\ log' = Append(log, Rec("yield", cur, NoEv))
  /\ pc' = "execute"
  /\ UNCHANGED <<cur, out, events, raisedBy>>
  /\ PipeFrame

\* yield early_exit_event
YieldEarlyExitEvent ==
  /\ mode = "pipeline" /\ pc = "early_yield"
  /\ log' = Append(log, Rec("yield", cur, NoEv))
  /\ pc' = "after_run"
  /\ UNCHANGED <<cur, out, events, raisedBy>>
  /\ PipeFrame

\* execute_fn(invocation_context): the agent's run is started
CallExecuteFn ==
  /\ mode = "pipeline" /\ pc = "execute"
  /\ log' = Append(log, Rec("execute", NoEv, NoEv))
  /\ pc' = "next"
  /\ UNCHANGED <<cur, out, events, raisedBy>>
  /\ PipeFrame

NumProduced == Cardinality({i \in 1..Len(log) : log[i].op = "produce"})

\* how many events the agent may produce in one invocation
EventLimit == IF entry = "exec" THEN MaxEvents ELSE MaxRunEvents

\* mutant: after-run sits in a finally block and also runs when the agent
\* raises
Mut_AgentRaises_finally ==
  /\ mode = "pipeline" /\ pc = "next"
  /\ pc' = "after_run"
  /\ raisedBy' = "agent"
  /\ UNCHANGED <<cur, out, log, events>>
  /\ PipeFrame

\* mutant: the events appended during the invocation are rolled back
Mut_AgentRaises_rollback ==
  /\ mode = "pipeline" /\ pc = "next"
  /\ pc' = "raised"
  /\ raisedBy' = "agent"
  /\ events' = SubSeq(events, 1, base)
  /\ UNCHANGED <<cur, out, log>>
  /\ PipeFrame

\* async for event in execute_fn(...): the agent's sequence raises
AgentRaises ==
  /\ mode = "pipeline" /\ pc = "next"
  /\ Raise("agent")
  /\ PipeFrame

\* mutant: a produced event goes to the hook without being appended
Mut_NextAgentEvent_skips_append ==
  /\ mode = "pipeline" /\ pc = "next"
  /\ \/ /\ NumProduced < EventLimit
        /\ \E e \in AgentEvents :
             /\ cur' = e
             /\ log' = Append(log, Rec("produce", e, NoEv))
             /\ pc' = "on_event"
     \/ /\ pc' = "after_run"
        /\ UNCHANGED <<cur, log>>
  /\ UNCHANGED <<out, events, raisedBy>>
  /\ PipeFrame

\* async for event in execute_fn(...): the next event, or the end
NextAgentEvent ==
  /\ mode = "pipeline" /\ pc = "next"
  /\ \/ /\ NumProduced < EventLimit
        /\ \E e \in AgentEvents :
             /\ cur' = e
             /\ log' = Append(log, Rec("produce", e, NoEv))
             /\ pc' = IF is_appended(e) THEN "append" ELSE "on_event"
     \/ /\ pc' = "after_run"
        /\ UNCHANGED <<cur, log>>
  /\ UNCHANGED <<out, events, raisedBy>>
  /\ PipeFrame

\* await self.session_service.append_event(session=session, event=event)
AppendEvent ==
  /\ mode = "pipeline" /\ pc = "append"
  /\ \/ /\ events' = append_event(events, cur)
        /\ log' = Append(log, Rec("append", cur, NoEv))
        /\ pc' = "on_event"
        /\ UNCHANGED <<cur, out, raisedBy>>
     \/ Raise("append_event")
  /\ PipeFrame

\* mutant: the hook's return value is dropped
Mut_RunOnEventCallback_ignores_result ==
  /\ mode = "pipeline" /\ pc = "on_event"
  /\ \/ \E modified_event \in OnEventResults(cur) :
          /\ log' = Append(log, Rec("on_event", cur, modified_event))
          /\ out' = cur
          /\ pc' = "yield"
          /\ UNCHANGED <<cur, events, raisedBy>>
     \/ Raise("on_event")
  /\ PipeFrame

\* modified_event = await plugin_manager.run_on_event_callback(...)
RunOnEventCallback ==
  /\ mode = "pipeline" /\ pc = "on_event"
  /\ \/ \E modified_event \in OnEventResults(cur) :
          /\ log' = Append(log, Rec("on_event", cur, modified_event))
          /\ out' = IF modified_event # NoEv THEN modified_event ELSE cur
          /\ pc' = "yield"
          /\ UNCHANGED <<cur, events, raisedBy>>
     \/ Raise("on_event")
  /\ PipeFrame

\* yield (modified_event if modified_event else event)
YieldEvent ==
  /\ mode = "pipeline" /\ pc = "yield"
  /\ log' = Append(log, Rec("yield", out, NoEv))
  /\ pc' = "next"
  /\ UNCHANGED <<cur, out, events, raisedBy>>
  /\ PipeFrame

\* await plugin_manager.run_after_run_callback(...)
RunAfterRunCallback ==
  /\ mode = "pipeline" /\ pc = "after_run"
  /\ log' = Append(log, Rec("after_run", NoEv, NoEv))
  /\ \/ /\ pc' = "done"
        /\ UNCHANGED raisedBy
     \/ /\ pc' = "raised"
        /\ raisedBy' = "after_run"
  /\ UNCHANGED <<cur, out, events>>
  /\ PipeFrame

\* the session _exec_with_plugin is handed: what run_async or run_live left
PipelineInit ==
  /\ isLlm = [a \in Agents |-> TRUE]
  /\ disallow = [a \in Agents |-> FALSE]
  /\ deepLookup = TRUE
  /\ events = <<Ev("A", "None", "text", 1), Ev("user", "None", "text", 0)>>
  /\ base = Len(events)
  /\ found = RootName
  /\ mode = "pipeline"
  /\ pc = "before_run"
  /\ cur = NoEv
  /\ out = NoEv
  /\ log = <<>>
  /\ raisedBy = None
  /\ ReaperIdle
  /\ BridgeIdle
  /\ entry = "exec"
  /\ FrontIdle
  /\ LiveIdle
  /\ CtxIdle

PipelineNext ==
  \/ RunBeforeRunCallback
  \/ AppendEarlyExitEvent
  \/ YieldEarlyExitEvent
  \/ CallExecuteFn
  \/ NextAgentEvent
  \/ AgentRaises
  \/ AppendEvent
  \/ RunOnEventCallback
  \/ YieldEvent
  \/ RunAfterRunCallback

SpecPipeline == PipelineInit /\ [][PipelineNext]_vars

(***************************************************************************)
(* Execution pipeline: properties.                                         *)
(***************************************************************************)
IsPrefix(s, t) == Len(s) <= Len(t) /\ SubSeq(t, 1, Len(s)) = s

CallsOf(op) == SelectSeq(log, LAMBDA r : r.op = op)

EventsOf(op) == LET c == CallsOf(op) IN [i \in 1..Len(c) |-> c[i].ev]

Produced == EventsOf("produce")

Yielded == EventsOf("yield")

\* the events the pipeline appended to the session
Appended == SubSeq(events, base + 1, Len(events))

ShortCircuit ==
  log # <<>> /\ log[1].op = "before_run" /\ log[1].ret # NoEv

EarlyExitEvent == Ev("model", "None", log[1].ret.kind, log[1].ret.fid)

\* C1: the after-run hook is invoked exactly once when the invocation
\* completes without raising, on the normal path and on the short-circuit
\* path, and not at all when the agent's event sequence raises.
Thm_C1_AfterRunOnceOnSuccess ==
  /\ Len(CallsOf("after_run")) <= 1
  /\ pc = "done" => Len(CallsOf("after_run")) = 1
  /\ raisedBy = "agent" => Len(CallsOf("after_run")) = 0

Wit_C1_AfterRunOnceOnSuccess ==
  /\ pc = "done"
  /\ ~ShortCircuit
  /\ Len(Yielded) = 2
  /\ Len(CallsOf("after_run")) = 1

\* C2: no partial event is ever appended to the session, and once an
\* iteration of the loop is over every partial event the agent produced has
\* been passed to the on-event hook and yielded (itself or the hook's
\* replacement).
Thm_C2_PartialYieldedNeverAppended ==
  /\ \A i \in 1..Len(Appended) : Appended[i].partial # "True"
  /\ pc \in {"next", "after_run", "done"} =>
       \A k \in 1..Len(Produced) :
         Produced[k].partial = "True" =>
           /\ Len(CallsOf("on_event")) >= k
           /\ CallsOf("on_event")[k].ev = Produced[k]
           /\ Len(Yielded) >= k
           /\ Yielded[k] = IF CallsOf("on_event")[k].ret # NoEv
                           THEN CallsOf("on_event")[k].ret
                           ELSE Produced[k]
           /\ \A i \in 1..Len(Appended) : Appended[i] # Produced[k]

Wit_C2_PartialYieldedNeverAppended ==
  /\ pc = "done"
  /\ Len(Produced) = 2
  /\ Produced[1].partial = "True"
  /\ Produced[2].partial = "False"
  /\ Yielded[1] = Produced[1]
  /\ Appended = <<Produced[2]>>

\* C3: when the before-run hook returns content, the pipeline appends and
\* yields exactly one event, a finalized event authored by 'model' with that
\* content, never runs the agent nor the on-event hook, and invokes after-run
\* once.
Thm_C3_ShortCircuit ==
  ShortCircuit =>
    /\ CallsOf("execute") = <<>>
    /\ CallsOf("produce") = <<>>
    /\ CallsOf("on_event") = <<>>
    /\ Len(Appended) <= 1 /\ Len(Yielded) <= 1
    /\ pc \in {"after_run", "done"} =>
         /\ Appended = <<EarlyExitEvent>>
         /\ Yielded = <<EarlyExitEvent>>
    /\ pc = "done" => Len(CallsOf("after_run")) = 1

Wit_C3_ShortCircuit ==
  /\ ShortCircuit
  /\ pc = "done"
  /\ base = 2
  /\ Len(events) = 3
  /\ events[3] = Ev("model", "None", "text", 9)

NonPartial(s) == SelectSeq(s, LAMBDA e : e.partial # "True")

\* C18: on the normal path the log is a chain of rounds in production order,
\* each one "produce e, append e (exactly when e is not partial), on-event
\* hook on e, yield"; so the k-th yield belongs to the k-th produced event,
\* the session gains the non-partial produced events in production order,
\* and a non-partial event is in the session before its hook call and before
\* it is yielded.
Thm_C18_ProductionOrderPreserved ==
  ~ShortCircuit =>
    LET P == Produced
        Y == Yielded
        H == CallsOf("on_event")
        A == Appended
    IN  /\ \A i \in 2..Len(log) :
             LET a == log[i - 1]
                 b == log[i]
             IN  /\ a.op = "produce" =>
                      /\ b.ev = a.ev
                      /\ b.op = IF a.ev.partial # "True"
                                THEN "append" ELSE "on_event"
                 /\ a.op = "append" => b.op = "on_event" /\ b.ev = a.ev
                 /\ a.op = "on_event" => b.op = "yield"
                 /\ a.op = "yield" => b.op \in {"produce", "after_run"}
                 /\ b.op = "produce" => a.op \in {"execute", "yield"}
        /\ Len(Y) <= Len(P)
        /\ \A k \in 1..Len(Y) :
             /\ Y[k] \in {P[k], H[k].ret}
             /\ P[k].partial # "True" =>
                  /\ Len(NonPartial(SubSeq(P, 1, k))) <= Len(A)
                  /\ A[Len(NonPartial(SubSeq(P, 1, k)))] = P[k]
        /\ A = EventsOf("append")
        /\ IsPrefix(A, NonPartial(P))
        /\ pc \in {"on_event", "yield", "next", "after_run", "done"} =>
             A = NonPartial(P)

Wit_C18_ProductionOrderPreserved ==
  /\ pc = "done"
  /\ Produced = <<Ev("A", "False", "text", 1), Ev("A", "True", "text", 1),
                  Ev("A", "None", "text", 2)>>
  /\ Yielded = Produced
  /\ Appended = <<Produced[1], Produced[3]>>

\* C19: every yielded event is the on-event hook's return value when the
\* hook returned an event and the produced event otherwise; every event the
\* session gains is the produced event, never the hook's replacement.
Thm_C19_ReplacementYieldedOriginalAppended ==
  ~ShortCircuit =>
    LET P == Produced
        Y == Yielded
        H == CallsOf("on_event")
        A == Appended
        F == NonPartial(Produced)
    IN  /\ \A k \in 1..Len(Y) :
             Y[k] = IF H[k].ret # NoEv THEN H[k].ret ELSE P[k]
        /\ \A i \in 1..Len(A) :
             /\ i <= Len(F)
             /\ A[i] = F[i]
             /\ \A k \in 1..Len(H) : A[i] # H[k].ret

Wit_C19_ReplacementYieldedOriginalAppended ==
  /\ pc = "done"
  /\ Produced = <<Ev("A", "False", "text", 1)>>
  /\ Yielded = <<Ev("A", "False", "text", 3)>>
  /\ Appended = Produced

(***************************************************************************)
(* Runner.run_async and Runner.run_live up to _exec_with_plugin.           *)
(***************************************************************************)
Content(parts) == [isNone |-> FALSE, parts |-> parts]

\* the new_message a caller passes: None, no parts, text, a blob and text
UserMessages ==
  {NoMsg, Content(<<>>), Content(<<"text">>), Content(<<"blob", "text">>)}

\* what run_on_user_message_callback can return: None, or another message
OnUserMessageResults == {NoMsg, Content(<<>>), Content(<<"hooktext">>)}

\* the session the store holds before the call
StoredEvents == <<Ev("A", "None", "text", 1)>>

Call(op, ret) == [op |-> op, ret |-> ret]

\* Event(invocation_id=..., author='user', content=new_message)
UserEvent(m) ==
  Ev("user", "None", "text",
     IF m.parts # <<>> /\ m.parts[1] = "hooktext" THEN 7 ELSE 0)

\* the indices of the parts with inline_data
BlobIndices(parts) ==
  SelectSeq([i \in 1..Len(parts) |-> i], LAMBDA i : parts[i] = "blob")

\* new_message.parts[i] = types.Part(text='Uploaded file: ...') for every
\* part with inline_data
ReplaceBlobs(parts) ==
  [i \in 1..Len(parts) |-> IF parts[i] = "blob" THEN "uploaded" ELSE parts[i]]

FrontFrame == UNCHANGED <<treeVars, reaperVars, bridgeVars, ctxVars, liveVars>>

FrontRaise(err) ==
  /\ fpc' = "raised"
  /\ ferr' = err

\* mutant: the session is not checked
Mut_GetSession_unchecked ==
  /\ mode = "front" /\ entry = "run_async" /\ fpc = "get_session"
  /\ fcalls' = Append(fcalls, Call("get_session", IF stored THEN "session" ELSE "None"))
  /\ fpc' = "new_ctx"
  /\ UNCHANGED <<entry, given, stored, msg, artifactsOn, artifacts, ferr>>
  /\ UNCHANGED <<events, found, mode, pipeVars>>
  /\ FrontFrame

\* session = await self.session_service.get_session(...)
\* if not session: raise ValueError('Session not found: ...')
GetSession ==
  /\ mode = "front" /\ entry = "run_async" /\ fpc = "get_session"
  /\ fcalls' = Append(fcalls, Call("get_session", IF stored THEN "session" ELSE "None"))
  /\ IF stored
     THEN fpc' = "new_ctx" /\ ferr' = ferr
     ELSE FrontRaise("SessionNotFound")
  /\ UNCHANGED <<entry, given, stored, msg, artifactsOn, artifacts>>
  /\ UNCHANGED <<events, found, mode, pipeVars>>
  /\ FrontFrame

\* invocation_context = self._new_invocation_context(...): returns, or
\* raises ValueError('CFC is not supported ...')
NewInvocationContext ==
  /\ mode = "front" /\ entry = "run_async" /\ fpc = "new_ctx"
  /\ \/ fpc' = "on_user_message" /\ ferr' = ferr
     \/ FrontRaise("CfcNotSupported")
  /\ UNCHANGED <<entry, given, stored, msg, artifactsOn, artifacts, fcalls>>
  /\ UNCHANGED <<events, found, mode, pipeVars>>
  /\ FrontFrame

\* mutant: the hook's return value is dropped
Mut_RunOnUserMessageCallback_ignored ==
  /\ mode = "front" /\ fpc = "on_user_message"
  /\ \/ \E modified_user_message \in OnUserMessageResults :
          /\ fcalls' = Append(fcalls,
               Call("on_user_message",
                    IF modified_user_message.isNone THEN "None" ELSE "message"))
          /\ msg' = msg
          /\ fpc' = IF ~msg'.isNone THEN "append_message" ELSE "find_agent"
          /\ ferr' = ferr
     \/ /\ FrontRaise("on_user_message")
        /\ UNCHANGED <<msg, fcalls>>
  /\ UNCHANGED <<entry, given, stored, artifactsOn, artifacts>>
  /\ UNCHANGED <<events, found, mode, pipeVars>>
  /\ FrontFrame

\* modified_user_message = await ...run_on_user_message_callback(...)
\* if modified_user_message is not None: new_message = modified_user_message
\* if new_message: ...
RunOnUserMessageCallback ==
  /\ mode = "front" /\ fpc = "on_user_message"
  /\ \/ \E modified_user_message \in OnUserMessageResults :
          /\ fcalls' = Append(fcalls,
               Call("on_user_message",
                    IF modified_user_message.isNone THEN "None" ELSE "message"))
          /\ msg' = IF ~modified_user_message.isNone
                    THEN modified_user_message ELSE msg
          /\ fpc' = IF ~msg'.isNone THEN "append_message" ELSE "find_agent"
          /\ ferr' = ferr
     \/ /\ FrontRaise("on_user_message")
        /\ UNCHANGED <<msg, fcalls>>
  /\ UNCHANGED <<entry, given, stored, artifactsOn, artifacts>>
  /\ UNCHANGED <<events, found, mode, pipeVars>>
  /\ FrontFrame

\* mutant: a message without parts is appended like any other
Mut_AppendNewMessageToSession_no_check ==
  /\ mode = "front" /\ fpc = "append_message"
  /\ LET saved == IF artifactsOn THEN BlobIndices(msg.parts) ELSE <<>>
         content == IF artifactsOn
                    THEN Content(ReplaceBlobs(msg.parts)) ELSE msg
     IN  /\ artifacts' = artifacts \o saved
         /\ msg' = content
         /\ events' = append_event(events, UserEvent(content))
         /\ fcalls' = fcalls
                        \o [i \in 1..Len(saved) |-> Call("save_artifact", "None")]
                        \o <<Call("append_event", "None")>>
         /\ fpc' = "find_agent"
         /\ ferr' = ferr
  /\ UNCHANGED <<entry, given, stored, artifactsOn>>
  /\ UNCHANGED <<found, mode, pipeVars>>
  /\ FrontFrame

\* await self._append_new_message_to_session(...)
AppendNewMessageToSession ==
  /\ mode = "front" /\ fpc = "append_message"
  /\ IF msg.parts = <<>>
     THEN /\ FrontRaise("EmptyMessage")
          /\ UNCHANGED <<msg, artifacts, fcalls, events>>
     ELSE LET saved == IF artifactsOn THEN BlobIndices(msg.parts) ELSE <<>>
              content == IF artifactsOn
                         THEN Content(ReplaceBlobs(msg.parts)) ELSE msg
          IN  /\ artifacts' = artifacts \o saved
              /\ msg' = content
              /\ events' = append_event(events, UserEvent(content))
              /\ fcalls' = fcalls
                   \o [i \in 1..Len(saved) |-> Call("save_artifact", "None")]
                   \o <<Call("append_event", "None")>>
              /\ fpc' = "find_agent"
              /\ ferr' = ferr
  /\ UNCHANGED <<entry, given, stored, artifactsOn>>
  /\ UNCHANGED <<found, mode, pipeVars>>
  /\ FrontFrame

\* the call of _exec_with_plugin(invocation_context, session, execute)
EnterExecWithPlugin ==
  /\ mode' = "pipeline"
  /\ pc' = "before_run"
  /\ base' = Len(events)
  /\ fpc' = "exec"
  /\ UNCHANGED <<cur, out, log, raisedBy, events>>

\* invocation_context.agent = self._find_agent_to_run(session, root_agent)
\* async for event in self._exec_with_plugin(...): yield event
RunAsyncFindAgent ==
  /\ mode = "front" /\ entry = "run_async" /\ fpc = "find_agent"
  /\ found' = find_agent_to_run(events, RootName)
  /\ fcalls' = Append(fcalls, Call("find_agent_to_run", found'))
  /\ EnterExecWithPlugin
  /\ UNCHANGED <<entry, given, stored, msg, artifactsOn, artifacts, ferr>>
  /\ FrontFrame

\* if session is None and (user_id is None or session_id is None): raise
\* if not session: session = await self.session_service.get_session(...)
\*   if not session: raise ValueError('Session not found: ...')
LiveGetSession ==
  /\ mode = "front" /\ entry = "run_live" /\ fpc = "get_session"
  /\ CASE given = "neither" ->
            /\ FrontRaise("MissingIdentity")
            /\ UNCHANGED fcalls
       [] given = "session" ->
            /\ fpc' = "new_ctx"
            /\ UNCHANGED <<ferr, fcalls>>
       [] OTHER ->
            /\ fcalls' = Append(fcalls,
                 Call("get_session", IF stored THEN "session" ELSE "None"))
            /\ IF stored
               THEN fpc' = "new_ctx" /\ ferr' = ferr
               ELSE FrontRaise("SessionNotFound")
  /\ UNCHANGED <<entry, given, stored, msg, artifactsOn, artifacts>>
  /\ UNCHANGED <<events, found, mode, pipeVars>>
  /\ FrontFrame

\* invocation_context = self._new_invocation_context_for_live(...): returns,
\* or raises ValueError('CFC is not supported ...')
LiveNewInvocationContext ==
  /\ mode = "front" /\ entry = "run_live" /\ fpc = "new_ctx"
  /\ \/ fpc' = "find_agent" /\ ferr' = ferr
     \/ FrontRaise("CfcNotSupported")
  /\ UNCHANGED <<entry, given, stored, msg, artifactsOn, artifacts, fcalls>>
  /\ UNCHANGED <<events, found, mode, pipeVars>>
  /\ FrontFrame

\* invocation_context.agent = self._find_agent_to_run(session, root_agent)
LiveFindAgent ==
  /\ mode = "front" /\ entry = "run_live" /\ fpc = "find_agent"
  /\ found' = find_agent_to_run(events, RootName)
  /\ fcalls' = Append(fcalls, Call("find_agent_to_run", found'))
  /\ fpc' = "streaming_tools"
  /\ UNCHANGED <<entry, given, stored, msg, artifactsOn, artifacts, ferr>>
  /\ UNCHANGED <<events, mode, pipeVars>>
  /\ FrontFrame

\* the names tools go by
ToolNames == {"f", "g", "h"}

\* the annotations of a callable's parameters, as inspect.signature gives
\* them
ParamLists ==
  {<<>>, <<"str">>, <<"LiveRequestQueue">>, <<"str", "LiveRequestQueue">>,
   <<"Optional[LiveRequestQueue]">>,
   <<"LiveRequestQueue", "LiveRequestQueue">>}

\* an entry of agent.tools: name is the tool's name, dunder whether the
\* entry has a __name__ attribute (its value is then the name), hasFunc
\* whether it has a func attribute, isCallable whether callable_to_inspect
\* is callable, params the annotations of callable_to_inspect's parameters
Tool(name, dunder, hasFunc, isCallable, params) ==
  [name |-> name, dunder |-> dunder, hasFunc |-> hasFunc,
   isCallable |-> isCallable, params |-> params]

\* what agent.tools can hold: a function, an object that wraps a function in
\* its func attribute, with or without a __name__ of its own, and an object
\* that is neither (a toolset, a tool without func)
LiveToolItems ==
  {Tool(n, TRUE, FALSE, TRUE, ps) : n \in ToolNames, ps \in ParamLists}
    \cup {Tool(n, d, TRUE, TRUE, ps) :
            n \in ToolNames, d \in BOOLEAN, ps \in ParamLists}
    \cup {Tool(n, FALSE, FALSE, FALSE, <<>>) : n \in ToolNames}

\* agent.tools: up to MaxTools entries with names of their own
ToolLists ==
  {ts \in UNION {[1..n -> LiveToolItems] : n \in 0..MaxTools} :
     \A i, j \in 1..Len(ts) : ts[i].name = ts[j].name => i = j}

\* invocation_context.active_streaming_tools[tool.__name__] =
\*   ActiveStreamingTool(stream=LiveRequestQueue())
SetEntry(table, name, stream) ==
  {e \in table : e.name # name} \cup {[name |-> name, stream |-> stream]}

RECURSIVE inspect_params(_, _, _)
\* for param in inspect.signature(callable_to_inspect).parameters.values():
\* the parameters from the k-th on; st holds the table, the number of queues
\* constructed and the exception raised
inspect_params(tool, k, st) ==
  IF k > Len(tool.params) \/ st.err # None
  THEN st
  ELSE IF tool.params[k] = "LiveRequestQueue"
       THEN IF tool.dunder
            THEN inspect_params(tool, k + 1,
                   [table |-> SetEntry(st.table, tool.name, st.chans + 1),
                    chans |-> st.chans + 1,
                    err |-> None])
            ELSE [table |-> st.table,
                  chans |-> st.chans + 1,
                  err |-> "AttributeError"]
       ELSE inspect_params(tool, k + 1, st)

RECURSIVE inspect_tools(_, _, _)
\* for tool in invocation_context.agent.tools: the entries from the k-th on
inspect_tools(ts, k, st) ==
  IF k > Len(ts) \/ st.err # None
  THEN st
  ELSE inspect_tools(ts, k + 1,
         IF ts[k].isCallable THEN inspect_params(ts[k], 1, st) ELSE st)

\* hasattr(invocation_context.agent, 'tools')
HasTools(agent) == agent \in Agents /\ isLlm[agent]

\* invocation_context.active_streaming_tools = {}
\* if hasattr(invocation_context.agent, 'tools'): for tool in ...
\* async for event in self._exec_with_plugin(...): yield event
RegisterStreamingTools ==
  /\ mode = "front" /\ entry = "run_live" /\ fpc = "streaming_tools"
  /\ LET empty == [table |-> {}, chans |-> chans, err |-> None]
         st == IF HasTools(found)
               THEN inspect_tools(liveTools, 1, empty) ELSE empty
     IN  /\ active_streaming_tools' = st.table
         /\ chans' = st.chans
         /\ IF st.err # None
            THEN /\ FrontRaise(st.err)
                 /\ UNCHANGED <<events, mode, pipeVars>>
            ELSE /\ EnterExecWithPlugin
                 /\ ferr' = ferr
  /\ UNCHANGED <<entry, given, stored, msg, artifactsOn, artifacts, fcalls>>
  /\ UNCHANGED <<treeVars, found, reaperVars, bridgeVars, ctxVars, liveTools>>

\* the agent.tools a run_live call finds, in the runs that go on into
\* _exec_with_plugin
FrontToolLists ==
  {<<>>,
   <<Tool("f", TRUE, FALSE, TRUE, <<"LiveRequestQueue">>)>>,
   <<Tool("g", FALSE, TRUE, TRUE, <<"LiveRequestQueue">>)>>}

\* a call of run_async or of run_live
FrontInit ==
  /\ isLlm = [a \in Agents |-> TRUE]
  /\ disallow = [a \in Agents |-> FALSE]
  /\ deepLookup = TRUE
  /\ stored \in BOOLEAN
  /\ entry \in {"run_async", "run_live"}
  /\ given \in IF entry = "run_live"
               THEN IF stored THEN {"ids", "session", "neither"}
                              ELSE {"ids", "neither"}
               ELSE {"ids"}
  /\ msg \in IF entry = "run_async" THEN UserMessages ELSE {NoMsg}
  /\ artifactsOn \in IF entry = "run_async" THEN BOOLEAN ELSE {FALSE}
  /\ events = IF stored THEN StoredEvents ELSE <<>>
  /\ liveTools \in IF entry = "run_live" /\ stored /\ given # "neither"
                   THEN FrontToolLists ELSE {<<>>}
  /\ active_streaming_tools = {}
  /\ chans = 0
  /\ found = Unset
  /\ mode = "front"
  /\ fpc = "get_session"
  /\ artifacts = <<>>
  /\ fcalls = <<>>
  /\ ferr = None
  /\ PipeIdle
  /\ ReaperIdle
  /\ BridgeIdle
  /\ CtxIdle

FrontNext ==
  \/ GetSession
  \/ NewInvocationContext
  \/ RunOnUserMessageCallback
  \/ AppendNewMessageToSession
  \/ RunAsyncFindAgent
  \/ LiveGetSession
  \/ LiveNewInvocationContext
  \/ LiveFindAgent
  \/ RegisterStreamingTools

RunNext == FrontNext \/ PipelineNext

SpecRunAsync == FrontInit /\ [][RunNext]_vars

(***************************************************************************)
(* run_async and run_live: properties.                                     *)
(***************************************************************************)
\* C14: when get_session returns no session, run_async and run_live (called
\* with user_id and session_id) raise at once: get_session is the only call
\* made, no plugin hook ran, no event was appended, no agent was resolved or
\* run and nothing was yielded; and neither ever gets past get_session.
Thm_C14_SessionNotFoundFailsFast ==
  /\ ferr = "SessionNotFound" =>
       /\ ~stored
       /\ fpc = "raised"
       /\ fcalls = <<Call("get_session", "None")>>
       /\ events = <<>>
       /\ artifacts = <<>>
       /\ found = Unset
       /\ log = <<>>
       /\ pc = "idle"
  /\ (~stored /\ given = "ids") =>
       /\ fpc \in {"get_session", "raised"}
       /\ fpc = "raised" => ferr = "SessionNotFound"

Wit_C14_SessionNotFoundFailsFast ==
  /\ entry = "run_live"
  /\ given = "ids"
  /\ ferr = "SessionNotFound"

\* C15: when the message to append (new_message, or the on-user-message
\* hook's return value when it returns one) has no parts, run_async raises:
\* the session holds what it held, no artifact was saved, and the before-run
\* hook, the resolution and the agent never ran; run_async never goes on
\* with such a message.
Thm_C15_EmptyMessageFailsFast ==
  /\ ferr = "EmptyMessage" =>
       /\ entry = "run_async"
       /\ fpc = "raised"
       /\ ~msg.isNone /\ msg.parts = <<>>
       /\ events = StoredEvents
       /\ artifacts = <<>>
       /\ \A i \in 1..Len(fcalls) :
            fcalls[i].op \in {"get_session", "on_user_message"}
       /\ found = Unset
       /\ log = <<>>
       /\ pc = "idle"
  /\ (~msg.isNone /\ msg.parts = <<>>) =>
       fpc \in {"get_session", "new_ctx", "on_user_message", "append_message",
                "raised"}

Wit_C15_EmptyMessageFailsFast ==
  /\ ferr = "EmptyMessage"
  /\ artifactsOn
  /\ fcalls = <<Call("get_session", "session"),
                Call("on_user_message", "message")>>

\* C20: when the agent's sequence raises after k events, the exception
\* leaves _exec_with_plugin and run_async: the k events have been yielded,
\* the non-partial ones among them are in the session, the after-run hook
\* did not run, and from then on nothing is appended or yielded.
Thm_C20_AgentErrorPropagates ==
  /\ []((entry = "run_async" /\ raisedBy = "agent") =>
          /\ pc = "raised"
          /\ Len(Yielded) = Len(Produced)
          /\ Len(CallsOf("on_event")) = Len(Produced)
          /\ Appended = NonPartial(Produced)
          /\ CallsOf("after_run") = <<>>)
  /\ [][(entry = "run_async" /\ raisedBy = "agent") =>
          (events' = events /\ log' = log)]_vars

Wit_C20_AgentErrorPropagates ==
  /\ entry = "run_async"
  /\ raisedBy = "agent"
  /\ Len(Produced) = 2
  /\ Produced[1].partial = "True"
  /\ Produced[2].partial = "False"
  /\ Len(Yielded) = 2
  /\ events = StoredEvents \o <<Ev("user", "None", "text", 7), Produced[2]>>

\* C23: in run_async with a message that has parts, the session gains
\* exactly one user-authored event, with the message as content (the
\* on-user-message hook's return value when it returns one, new_message
\* otherwise); it is appended after the hook and before _find_agent_to_run
\* and the before-run hook, so it is the newest event the resolution sees;
\* it is never yielded.
Thm_C23_UserEventAppendedBeforeResolution ==
  (entry = "run_async" /\ fpc \in {"find_agent", "exec"} /\ ~msg.isNone) =>
    LET n == Len(StoredEvents) + 1
        appends == {q \in 1..Len(fcalls) : fcalls[q].op = "append_event"}
    IN  /\ Len(events) >= n
        /\ events[n] = UserEvent(msg)
        /\ \A i \in 1..Len(events) : events[i].author = "user" <=> i = n
        /\ events[n].fid = IF fcalls[2].ret = "message" THEN 7 ELSE 0
        /\ fcalls[2].op = "on_user_message"
        /\ Cardinality(appends) = 1
        /\ \A q \in 1..Len(fcalls) :
             /\ fcalls[q].op = "on_user_message" => \A a \in appends : q < a
             /\ fcalls[q].op = "find_agent_to_run" => \A a \in appends : a < q
        /\ fpc = "find_agent" =>
             /\ Len(events) = n
             /\ found = Unset
             /\ log = <<>>
        /\ fpc = "exec" =>
             /\ base = n
             /\ found = find_agent_to_run(SubSeq(events, 1, n), RootName)
        /\ \A k \in 1..Len(Yielded) : Yielded[k].author # "user"

Wit_C23_UserEventAppendedBeforeResolution ==
  /\ entry = "run_async"
  /\ pc = "done"
  /\ artifactsOn
  /\ fcalls[2] = Call("on_user_message", "message")
  /\ events[2] = Ev("user", "None", "text", 7)
  /\ Len(Yielded) = 2

(***************************************************************************)
(* run_live: the active streaming tools.                                   *)
(***************************************************************************)
\* run_live after the context is built, for every agent.tools
LiveInit ==
  /\ isLlm \in {[a \in Agents |-> b] : b \in BOOLEAN}
  /\ disallow = [a \in Agents |-> FALSE]
  /\ deepLookup = TRUE
  /\ stored = TRUE
  /\ entry = "run_live"
  /\ given = "ids"
  /\ msg = NoMsg
  /\ artifactsOn = FALSE
  /\ events \in {<<>>, StoredEvents}
  /\ liveTools \in IF isLlm[RootName] THEN ToolLists ELSE {<<>>}
  /\ active_streaming_tools = {}
  /\ chans = 0
  /\ found = Unset
  /\ mode = "front"
  /\ fpc = "find_agent"
  /\ artifacts = <<>>
  /\ fcalls = <<Call("get_session", "session")>>
  /\ ferr = None
  /\ PipeIdle
  /\ ReaperIdle
  /\ BridgeIdle
  /\ CtxIdle

LiveNext == LiveFindAgent \/ RegisterStreamingTools

SpecLive == LiveInit /\ [][LiveNext]_vars

\* the tool has a parameter annotated with LiveRequestQueue itself
NeedsQueue(tool) ==
  /\ tool.isCallable
  /\ \E k \in 1..Len(tool.params) : tool.params[k] = "LiveRequestQueue"

\* C22 as stated: once run_live is past the tool inspection, the table holds
\* one entry for each tool of the resolved agent that has a parameter
\* annotated with LiveRequestQueue, under the tool's name, and no other
\* entry; every entry has a LiveRequestQueue constructed for it alone.
Cex_C22_StreamingToolsRegistered ==
  (entry = "run_live" /\ fpc \in {"exec", "raised"}) =>
    /\ ferr = None
    /\ {e.name : e \in active_streaming_tools}
         = IF HasTools(found)
           THEN {liveTools[i].name :
                   i \in {j \in 1..Len(liveTools) : NeedsQueue(liveTools[j])}}
           ELSE {}
    /\ \A e1, e2 \in active_streaming_tools :
         (e1.name = e2.name \/ e1.stream = e2.stream) => e1 = e2
    /\ \A e \in active_streaming_tools : e.stream \in 1..chans

(***************************************************************************)
(* Runner._new_invocation_context and _new_invocation_context_for_live,    *)
(* over the invocations of one runner.                                     *)
(***************************************************************************)
\* the response_modalities a caller sets
Modalities == {NoList, <<>>, <<"AUDIO">>, <<"TEXT">>}

\* the run_config a caller of run_live passes
LiveConfigs ==
  {RunConfig(m, o, i, c) :
     m \in Modalities, o \in {None, "caller"}, i \in {None, "caller"},
     c \in BOOLEAN}

\* the run_config run_async is called with
AsyncConfigs == {RunConfig(NoList, None, None, c) : c \in BOOLEAN}

\* not run_config.response_modalities
NotModalities(m) == m = NoList \/ m = <<>>

\* 'TEXT' in run_config.response_modalities
HasText(m) == \E k \in 1..Len(m) : m[k] = "TEXT"

\* mutant: the transcription settings are always replaced
Mut_for_live_overwrites(cfg, subs, queued) ==
  IF subs /\ queued
  THEN [cfg EXCEPT
          !.response_modalities =
            IF NotModalities(@) THEN <<"AUDIO">> ELSE @,
          !.output_audio_transcription =
            IF HasText(cfg.response_modalities) THEN @ ELSE "runner",
          !.input_audio_transcription = "runner"]
  ELSE cfg

\* _new_invocation_context_for_live, lines 568-585: the run_config after the
\* in-place defaulting
for_live(cfg, subs, queued) ==
  IF subs /\ queued
  THEN LET c1 == IF NotModalities(cfg.response_modalities)
                 THEN [cfg EXCEPT
                         !.response_modalities = <<"AUDIO">>,
                         !.output_audio_transcription =
                           IF @ = None THEN "runner" ELSE @]
                 ELSE IF ~HasText(cfg.response_modalities)
                      THEN [cfg EXCEPT
                              !.output_audio_transcription =
                                IF @ = None THEN "runner" ELSE @]
                      ELSE cfg
       IN  [c1 EXCEPT
              !.input_audio_transcription = IF @ = None THEN "runner" ELSE @]
  ELSE cfg

\* _new_invocation_context, lines 535-541: whether it raises ValueError
CfcRaises(cfg) ==
  /\ cfg.support_cfc
  /\ isLlm[RootName]
  /\ model # "gemini-2"

\* _new_invocation_context, lines 535-543: self.agent.code_executor afterwards
cfc_executor(cfg, executor) ==
  IF cfg.support_cfc /\ isLlm[RootName] /\ ~CfcRaises(cfg)
       /\ executor # "builtin"
  THEN "builtin"
  ELSE executor

CtxFrame ==
  UNCHANGED <<treeVars, events, found, mode, pipeVars, reaperVars,
              bridgeVars, frontVars, liveVars, model, rootHasSubs>>

\* run_async builds its context: _new_invocation_context(session,
\* new_message=..., run_config=run_config)
AsyncContext(n) ==
  /\ mode = "context" /\ ipc[n] = "idle"
  /\ \E cfg \in AsyncConfigs :
       /\ ownCfg' = [ownCfg EXCEPT ![n] = cfg]
       /\ code_executor' = cfc_executor(cfg, code_executor)
       /\ inv' = [inv EXCEPT ![n] =
            [entry |-> "run_async", usesDefault |-> FALSE, queue |-> FALSE,
             start |-> cfg, built |-> cfg, executor |-> code_executor]]
       /\ ipc' = [ipc EXCEPT ![n] =
            IF CfcRaises(cfg) THEN "raised" ELSE "executing"]
  /\ UNCHANGED defaultCfg
  /\ CtxFrame

\* run_live builds its context: _new_invocation_context_for_live(session,
\* live_request_queue=..., run_config=run_config), run_config being the
\* caller's object or, when omitted, the default argument
LiveContext(n) ==
  /\ mode = "context" /\ ipc[n] = "idle"
  /\ \E omitted \in BOOLEAN, queued \in BOOLEAN, passed \in LiveConfigs :
       LET cfg == IF omitted THEN defaultCfg ELSE passed
           built == for_live(cfg, rootHasSubs, queued)
       IN  /\ omitted => passed = DefaultRunConfig
           /\ defaultCfg' = IF omitted THEN built ELSE defaultCfg
           /\ ownCfg' = [ownCfg EXCEPT ![n] = IF omitted THEN @ ELSE built]
           /\ code_executor' = cfc_executor(built, code_executor)
           /\ inv' = [inv EXCEPT ![n] =
                [entry |-> "run_live", usesDefault |-> omitted,
                 queue |-> queued, start |-> cfg, built |-> built,
                 executor |-> code_executor]]
           /\ ipc' = [ipc EXCEPT ![n] =
                IF CfcRaises(built) THEN "raised" ELSE "executing"]
  /\ CtxFrame

\* _exec_with_plugin runs to its end
InvocationEnds(n) ==
  /\ mode = "context" /\ ipc[n] = "executing"
  /\ ipc' = [ipc EXCEPT ![n] = "done"]
  /\ UNCHANGED <<code_executor, defaultCfg, ownCfg, inv>>
  /\ CtxFrame

\* a runner whose agent has not been run yet
ContextInit ==
  /\ isLlm \in {f \in [Agents -> BOOLEAN] : \A a \in Agents \ {RootName} : f[a]}
  /\ disallow = [a \in Agents |-> FALSE]
  /\ deepLookup = TRUE
  /\ events = <<>>
  /\ found = Unset
  /\ mode = "context"
  /\ PipeIdle
  /\ ReaperIdle
  /\ BridgeIdle
  /\ entry = None
  /\ FrontIdle
  /\ LiveIdle
  /\ code_executor \in {"custom", "builtin"}
  /\ model \in {"gemini-2", "other"}
  /\ rootHasSubs \in BOOLEAN
  /\ defaultCfg = DefaultRunConfig
  /\ ownCfg = [i \in Invocations |-> DefaultRunConfig]
  /\ ipc = [i \in Invocations |-> "idle"]
  /\ inv = [i \in Invocations |-> NoInv]

ContextNext ==
  \E n \in Invocations : AsyncContext(n) \/ LiveContext(n) \/ InvocationEnds(n)

SpecContext == ContextInit /\ [][ContextNext]_vars

(***************************************************************************)
(* Context construction: properties.                                       *)
(***************************************************************************)
\* the run_config object invocation n holds
CfgOf(n) == IF inv[n].usesDefault THEN defaultCfg ELSE ownCfg[n]

Started(n) == ipc[n] # "idle"

\* C16 as stated: invocations on one runner share no mutable state; what an
\* invocation finds when it builds its context (the agent's code executor,
\* the run_config it gets when it passes none) is what every other invocation
\* found, and the run_config of an executing invocation is as its own context
\* construction left it.
Cex_C16_InvocationsShareNoState ==
  /\ \A n, k \in Invocations :
       (Started(n) /\ Started(k)) =>
         /\ inv[n].executor = inv[k].executor
         /\ (inv[n].usesDefault /\ inv[k].usesDefault) =>
              inv[n].start = inv[k].start
  /\ \A n \in Invocations :
       ipc[n] = "executing" => CfgOf(n) = inv[n].built

\* C17: what _new_invocation_context_for_live leaves in run_config, by the
\* response modalities asked for, when the root has sub-agents and a live
\* request queue is passed; and that it leaves run_config alone otherwise.
Thm_C17_LiveConfigDefaults ==
  \A n \in Invocations :
    (Started(n) /\ inv[n].entry = "run_live") =>
      LET s == inv[n].start
          b == inv[n].built
      IN  IF rootHasSubs /\ inv[n].queue
          THEN /\ b.input_audio_transcription # None
               /\ s.input_audio_transcription # None =>
                    b.input_audio_transcription = s.input_audio_transcription
               /\ s.output_audio_transcription # None =>
                    b.output_audio_transcription = s.output_audio_transcription
               /\ NotModalities(s.response_modalities) =>
                    /\ b.response_modalities = <<"AUDIO">>
                    /\ b.output_audio_transcription # None
               /\ (~NotModalities(s.response_modalities)
                     /\ ~HasText(s.response_modalities)) =>
                    /\ b.response_modalities = s.response_modalities
                    /\ b.output_audio_transcription # None
               /\ HasText(s.response_modalities) =>
                    /\ b.response_modalities = s.response_modalities
                    /\ b.output_audio_transcription
                         = s.output_audio_transcription
               /\ b.support_cfc = s.support_cfc
          ELSE b = s

Wit_C17_LiveConfigDefaults ==
  /\ rootHasSubs
  /\ ipc[1] = "executing"
  /\ inv[1].entry = "run_live"
  /\ inv[1].queue
  /\ inv[1].start = RunConfig(<<"AUDIO">>, None, "caller", FALSE)
  /\ inv[1].built = RunConfig(<<"AUDIO">>, "runner", "caller", FALSE)

(***************************************************************************)
(* Runner.close: _collect_toolset and _cleanup_toolsets.                   *)
(***************************************************************************)
\* the BaseToolset instances, by identity
Toolsets == {"ts1", "ts2"}

\* what agent.tools can hold: toolsets and plain tools
ToolItems == Toolsets \cup {"fn"}

\* how awaiting asyncio.wait_for(toolset.close(), timeout=10.0) can end:
\* normally, with asyncio.TimeoutError, with another Exception, or with a
\* BaseException that is no Exception (asyncio.CancelledError)
CloseOutcomes == {"closed", "timeout", "error", "cancelled"}

\* Runner._collect_toolset
RECURSIVE collect_toolset(_)
collect_toolset(agent) ==
  (IF isLlm[agent] THEN {t \in tools[agent] : t \in Toolsets} ELSE {})
  \cup UNION {collect_toolset(s) : s \in SubAgents(agent)}

ReaperFrame ==
  UNCHANGED <<treeVars, events, found, mode, pipeVars, tools, bridgeVars, frontVars, ctxVars, liveVars>>

\* await self._cleanup_toolsets(self._collect_toolset(self.agent)), up to
\* the first toolset.close()
Close ==
  /\ mode = "close" /\ cpc = "start"
  /\ toClose' = collect_toolset(RootName)
  /\ cpc' = IF toClose' = {} THEN "done" ELSE "loop"
  /\ UNCHANGED closeLog
  /\ ReaperFrame

\* mutant: no try/except around the close; an Exception ends the loop
Mut_CloseToolset_no_except ==
  /\ mode = "close" /\ cpc = "loop"
  /\ \E toolset \in toClose, outcome \in CloseOutcomes :
       /\ closeLog' = Append(closeLog, [ts |-> toolset, outcome |-> outcome])
       /\ toClose' = toClose \ {toolset}
       /\ cpc' = IF outcome \in {"cancelled", "error"} THEN "raised"
                 ELSE IF toClose' = {} THEN "done" ELSE "loop"
  /\ ReaperFrame

\* mutant: asyncio.TimeoutError is not handled and leaves the loop
Mut_CloseToolset_timeout_raises ==
  /\ mode = "close" /\ cpc = "loop"
  /\ \E toolset \in toClose, outcome \in CloseOutcomes :
       /\ closeLog' = Append(closeLog, [ts |-> toolset, outcome |-> outcome])
       /\ toClose' = toClose \ {toolset}
       /\ cpc' = IF outcome \in {"cancelled", "timeout"} THEN "raised"
                 ELSE IF toClose' = {} THEN "done" ELSE "loop"
  /\ ReaperFrame

\* one iteration of: for toolset in toolsets_to_close: try: await
\* asyncio.wait_for(toolset.close(), timeout=10.0) except ...
CloseToolset ==
  /\ mode = "close" /\ cpc = "loop"
  /\ \E toolset \in toClose, outcome \in CloseOutcomes :
       /\ closeLog' = Append(closeLog, [ts |-> toolset, outcome |-> outcome])
       /\ toClose' = toClose \ {toolset}
       /\ cpc' = IF outcome = "cancelled" THEN "raised"
                 ELSE IF toClose' = {} THEN "done" ELSE "loop"
  /\ ReaperFrame

\* only an LlmAgent has tools (lines 403-404, 594-595)
ReaperInit ==
  /\ isLlm \in [Agents -> BOOLEAN]
  /\ disallow = [a \in Agents |-> FALSE]
  /\ deepLookup = TRUE
  /\ tools \in [Agents -> SUBSET ToolItems]
  /\ \A a \in Agents : ~isLlm[a] => tools[a] = {}
  /\ events = <<>>
  /\ found = Unset
  /\ mode = "close"
  /\ PipeIdle
  /\ cpc = "start"
  /\ toClose = {}
  /\ closeLog = <<>>
  /\ BridgeIdle
  /\ entry = None
  /\ FrontIdle
  /\ LiveIdle
  /\ CtxIdle

ReaperNext == Close \/ CloseToolset

SpecReaper == ReaperInit /\ [][ReaperNext]_vars

(***************************************************************************)
(* Toolset cleanup: properties.                                            *)
(***************************************************************************)
\* the toolsets some agent of the tree refers to
ReachableToolsets == UNION {tools[a] \cap Toolsets : a \in Agents}

Attempted == {closeLog[i].ts : i \in 1..Len(closeLog)}

BridgeEvents == {Ev("A", "None", "text", c) : c \in {1, 2}}

\* mutant: a LIFO queue
Mut_queue_put_front(q, item) == <<item>> \o q

\* event_queue.put(item) on a queue.Queue (FIFO, unbounded)
queue_put(q, item) == Append(q, item)

BridgeFrame ==
  UNCHANGED <<treeVars, events, found, mode, pipeVars, reaperVars, frontVars, ctxVars, liveVars>>

\* event_queue = queue.Queue(); thread = create_thread(...); thread.start()
ThreadStart ==
  /\ mode = "run" /\ bpc = "start"
  /\ wpc' = "asyncio_run"
  /\ bpc' = "get"
  /\ UNCHANGED <<queue, asyncOut, got, failed>>
  /\ BridgeFrame

\* asyncio.run(_invoke_run_async()): the coroutine starts, or asyncio.run
\* raises before it does
AsyncioRun ==
  /\ mode = "run" /\ wpc = "asyncio_run"
  /\ \/ /\ wpc' = "iterating"
        /\ UNCHANGED failed
     \/ /\ wpc' = "outer_finally"
        /\ failed' = "asyncio_run"
  /\ UNCHANGED <<queue, bpc, asyncOut, got>>
  /\ BridgeFrame

\* async for event in self.run_async(...): event_queue.put(event)
PutEvent ==
  /\ mode = "run" /\ wpc = "iterating"
  /\ Len(asyncOut) < MaxBridge
  /\ \E event \in BridgeEvents :
       /\ asyncOut' = Append(asyncOut, event)
       /\ queue' = queue_put(queue, event)
  /\ UNCHANGED <<wpc, bpc, got, failed>>
  /\ BridgeFrame

\* run_async is exhausted
RunAsyncEnds ==
  /\ mode = "run" /\ wpc = "iterating"
  /\ wpc' = "inner_finally"
  /\ UNCHANGED <<queue, bpc, asyncOut, got, failed>>
  /\ BridgeFrame

\* mutant: no finally blocks; an exception ends the worker without a sentinel
Mut_RunAsyncRaises_no_finally ==
  /\ mode = "run" /\ wpc = "iterating"
  /\ wpc' = "exited"
  /\ failed' = "run_async"
  /\ UNCHANGED <<queue, bpc, asyncOut, got>>
  /\ BridgeFrame

\* run_async raises
RunAsyncRaises ==
  /\ mode = "run" /\ wpc = "iterating"
  /\ wpc' = "inner_finally"
  /\ failed' = "run_async"
  /\ UNCHANGED <<queue, bpc, asyncOut, got>>
  /\ BridgeFrame

\* _invoke_run_async: finally: event_queue.put(None)
InnerFinally ==
  /\ mode = "run" /\ wpc = "inner_finally"
  /\ queue' = queue_put(queue, NoEv)
  /\ wpc' = "outer_finally"
  /\ UNCHANGED <<bpc, asyncOut, got, failed>>
  /\ BridgeFrame

\* _asyncio_thread_main: finally: event_queue.put(None); the thread ends
OuterFinally ==
  /\ mode = "run" /\ wpc = "outer_finally"
  /\ queue' = queue_put(queue, NoEv)
  /\ wpc' = "exited"
  /\ UNCHANGED <<bpc, asyncOut, got, failed>>
  /\ BridgeFrame

\* event = event_queue.get(); if event is None: break; else: yield event
QueueGet ==
  /\ mode = "run" /\ bpc = "get"
  /\ queue # <<>>
  /\ queue' = Tail(queue)
  /\ IF Head(queue) = NoEv
     THEN bpc' = "join" /\ got' = got
     ELSE bpc' = bpc /\ got' = Append(got, Head(queue))
  /\ UNCHANGED <<wpc, asyncOut, failed>>
  /\ BridgeFrame

\* mutant: join hands the worker's exception to the calling thread
Mut_ThreadJoin_reraises ==
  /\ mode = "run" /\ bpc = "join"
  /\ wpc = "exited"
  /\ bpc' = IF failed # None THEN "raised" ELSE "end"
  /\ UNCHANGED <<queue, wpc, asyncOut, got, failed>>
  /\ BridgeFrame

\* thread.join(); the generator is exhausted
ThreadJoin ==
  /\ mode = "run" /\ bpc = "join"
  /\ wpc = "exited"
  /\ bpc' = "end"
  /\ UNCHANGED <<queue, wpc, asyncOut, got, failed>>
  /\ BridgeFrame

BridgeInit ==
  /\ isLlm = [a \in Agents |-> TRUE]
  /\ disallow = [a \in Agents |-> FALSE]
  /\ deepLookup = TRUE
  /\ events = <<>>
  /\ found = Unset
  /\ mode = "run"
  /\ PipeIdle
  /\ ReaperIdle
  /\ queue = <<>>
  /\ wpc = "idle"
  /\ bpc = "start"
  /\ asyncOut = <<>>
  /\ got = <<>>
  /\ failed = None
  /\ entry = None
  /\ FrontIdle
  /\ LiveIdle
  /\ CtxIdle

WorkerNext ==
  \/ AsyncioRun
  \/ PutEvent
  \/ RunAsyncEnds
  \/ RunAsyncRaises
  \/ InnerFinally
  \/ OuterFinally

ConsumerNext == ThreadStart \/ QueueGet \/ ThreadJoin

BridgeNext == WorkerNext \/ ConsumerNext

\* the worker thread is scheduled, and the caller keeps pulling
SpecBridge ==
  /\ BridgeInit
  /\ [][BridgeNext]_vars
  /\ WF_vars(WorkerNext)
  /\ WF_vars(ConsumerNext)

(***************************************************************************)
(* Sync bridge: properties.                                                *)
(***************************************************************************)
\* C12: when run_async completes normally the blocking iterator yields
\* exactly the events run_async produced, each once and in the same order,
\* and then ends: nothing is lost, duplicated or reordered on the way.
Thm_C12_BridgePreservesEvents ==
  /\ IsPrefix(got, asyncOut)
  /\ (failed = None /\ bpc \in {"join", "end"}) => got = asyncOut

Wit_C12_BridgePreservesEvents ==
  /\ bpc = "end"
  /\ failed = None
  /\ got = <<Ev("A", "None", "text", 2), Ev("A", "None", "text", 1)>>

\* C13: whatever happens in the worker, an exception at any point included,
\* the sentinel is enqueued, and a consumer that keeps pulling sees it: the
\* worker ends, is joined, and the iterator ends.
Thm_C13_SentinelAlwaysArrives ==
  /\ [](wpc = "exited" =>
          \/ bpc \in {"join", "end"}
          \/ \E i \in 1..Len(queue) : queue[i] = NoEv)
  /\ <>(bpc = "end" /\ wpc = "exited")

Wit_C13_SentinelAlwaysArrives ==
  /\ bpc = "end"
  /\ wpc = "exited"
  /\ failed = "asyncio_run"

\* C21: when something raises in the worker (run_async at any point, a
\* missing session included, or asyncio.run itself), the calling thread gets
\* the events put before the failure, in order, and then the generator ends
\* like after a run without failure: nothing is raised in the calling thread.
Thm_C21_WorkerFailureEndsStream ==
  /\ [](failed # None =>
          /\ bpc # "raised"
          /\ IsPrefix(got, asyncOut)
          /\ bpc \in {"join", "end"} => got = asyncOut)
  /\ (failed # None) ~> (bpc = "end" /\ got = asyncOut)

Wit_C21_WorkerFailureEndsStream ==
  /\ bpc = "end"
  /\ failed = "run_async"
  /\ got = <<Ev("A", "None", "text", 1)>>

\* the event loop keeps running the coroutine: every awaited close ends
\* (returns, raises, or is cut off after 10 s)
SpecReaperFair == ReaperInit /\ [][ReaperNext]_vars /\ WF_vars(ReaperNext)

\* C11 as stated: _cleanup_toolsets never raises to its caller, whatever the
\* outcome of each toolset's close.
Cex_C11_CleanupNeverRaises == cpc # "raised"

\* C11 as amended: _cleanup_toolsets always ends, and it ends by raising only
\* when a close raised a BaseException that is no Exception; a close that
\* returns, raises an Exception or is cut off by the timeout never makes it
\* raise.
Thm_C11_CleanupCompletes ==
  /\ [](cpc = "raised" =>
         \E i \in 1..Len(closeLog) : closeLog[i].outcome = "cancelled")
  /\ <>(cpc \in {"done", "raised"})

Wit_C11_CleanupCompletes ==
  /\ cpc = "done"
  /\ Len(closeLog) = 2
  /\ closeLog[1].outcome = "error"
  /\ closeLog[2].outcome = "timeout"

ResolverNext == SessionGrows \/ FindAgentToRun

SpecResolver == ResolverInit /\ [][ResolverNext]_vars

==========================================================================
